---- MODULE Spec2Model ----
\* A model of src/radar_signal_processor.py: CiscoSignalProcessor (the RSSI
\* classifier, the event trigger and the per-packet try/except boundary) and
\* the mock driver loop mock_cisco_data_stream.
\*
\* Python text is modelled as a sequence of one-character strings, so that the
\* operations the code performs on text (int() parsing, the `in` substring
\* test, f-string formatting) are computed rather than assumed.  Dictionary
\* keys are only ever looked up, and are plain strings.
EXTENDS Integers, Sequences, FiniteSets, TLC

VARIABLES
    self,          \* the processor object: its three thresholds and WATCH_LIST
    mock_data,     \* the driver's list of mock record dicts
    data_packet,   \* the dict last handed to analyze_packet, as it is after the call
    given,         \* history: the contents of that dict at the moment of the call
    chosen,        \* index in mock_data of the record last delivered (0: none)
    frame,         \* the locals analyze_packet had bound when it left its try body
    action,        \* how the last call ended: Suppressed, Alert, Activity, None, Error
    logged,        \* the log lines the last call emitted
    raised,        \* TRUE once an exception has escaped analyze_packet to its caller
    failed_before  \* TRUE once some earlier call ended in the except branch

vars == <<self, mock_data, data_packet, given, chosen, frame, action, logged,
          raised, failed_before>>

-----------------------------------------------------------------------------
\* Bounds of the model.

\* Complete records are fed with every integer rssi in -MaxWeak .. -MinWeak.
MaxWeak == 80
MinWeak == 36
\* The mock loop's random walk is followed while every record's rssi stays
\* within MaxDrift of the value it was configured with.
MaxDrift == 10

-----------------------------------------------------------------------------
\* Python values.  Every value is a record of the same shape, so that values
\* of different Python types can be compared (Python's == is False across
\* str / int / None).

PyNone == [t |-> "none", s |-> <<>>, n |-> 0]
PyStr(chars) == [t |-> "str", s |-> chars, n |-> 0]
PyInt(i) == [t |-> "int", s |-> <<>>, n |-> i]
\* A float, held in tenths: PyFloat(-455) is -45.5.
PyFloat(tenths) == [t |-> "float", s |-> <<>>, n |-> tenths]
\* A local name that was never bound (the try body was left before it).
Unbound == [t |-> "unbound", s |-> <<>>, n |-> 0]

\* dict.get(key) with the default dropped: an absent key reads as None.
dict_get_no_default(d, key, default) ==
    IF key \in DOMAIN d THEN d[key] ELSE PyNone

\* dict.get(key, default)
dict_get(d, key, default) ==
    IF key \in DOMAIN d THEN d[key] ELSE default

\* sub in s, for two strings.
str_contains(sub, s) ==
    \E i \in 0..(Len(s) - Len(sub)) : SubSeq(s, i + 1, i + Len(sub)) = sub

\* x in lst, for a list: some element equals x.
list_contains(x, lst) ==
    \E i \in DOMAIN lst : lst[i] = x

DecimalDigits == <<"0","1","2","3","4","5","6","7","8","9">>

is_digit(c) == \E i \in DOMAIN DecimalDigits : DecimalDigits[i] = c

digit_value(c) == (CHOOSE i \in DOMAIN DecimalDigits : DecimalDigits[i] = c) - 1

\* str.strip() for the one whitespace character the model feeds, the blank.
RECURSIVE str_strip(_)
str_strip(s) ==
    IF s = <<>> THEN s
    ELSE IF Head(s) = " " THEN str_strip(Tail(s))
    ELSE IF s[Len(s)] = " " THEN str_strip(SubSeq(s, 1, Len(s) - 1))
    ELSE s

\* The digit part of an integer literal: digits, with single underscores
\* allowed between two digits.
digits_valid(s) ==
    /\ s # <<>>
    /\ is_digit(s[1])
    /\ is_digit(s[Len(s)])
    /\ \A i \in DOMAIN s : is_digit(s[i]) \/ s[i] = "_"
    /\ \A i \in 1..(Len(s) - 1) : ~(s[i] = "_" /\ s[i + 1] = "_")

RECURSIVE digits_value(_, _)
digits_value(s, acc) ==
    IF s = <<>> THEN acc
    ELSE IF Head(s) = "_" THEN digits_value(Tail(s), acc)
    ELSE digits_value(Tail(s), 10 * acc + digit_value(Head(s)))

\* repr() of a string without quotes or escapes in it.
str_repr(s) == <<"'">> \o s \o <<"'">>

ValueErrorText ==
    <<"i","n","v","a","l","i","d"," ","l","i","t","e","r","a","l"," ","f","o","r"," ","i","n","t","(",")"," ","w","i","t","h"," ","b","a","s","e"," ","1","0",":"," ">>

TypeErrorText ==
    <<"i","n","t","(",")"," ","a","r","g","u","m","e","n","t"," ","m","u","s","t"," ","b","e"," ","a"," ","s","t","r","i","n","g",","," ","a"," ","b","y","t","e","s","-","l","i","k","e"," ","o","b","j","e","c","t"," ","o","r"," ","a"," ","r","e","a","l"," ","n","u","m","b","e","r",","," ","n","o","t"," ","'","N","o","n","e","T","y","p","e","'">>

\* int(v): [ok |-> TRUE, n |-> the integer] or [ok |-> FALSE, e |-> the
\* exception's text].  A string is stripped, may carry one sign, and must then
\* be an integer literal; a float is truncated toward zero; None is a TypeError.
py_int(v) ==
    IF v.t = "int" THEN [ok |-> TRUE, n |-> v.n, e |-> <<>>]
    ELSE IF v.t = "float" THEN
        [ok |-> TRUE,
         n |-> IF v.n >= 0 THEN v.n \div 10 ELSE -((-v.n) \div 10),
         e |-> <<>>]
    ELSE IF v.t = "str" THEN
        LET body == str_strip(v.s)
            signed == body # <<>> /\ Head(body) \in {"+", "-"}
            digits == IF signed THEN Tail(body) ELSE body
            mag == digits_value(digits, 0)
        IN  IF digits_valid(digits)
            THEN [ok |-> TRUE,
                  n |-> IF signed /\ Head(body) = "-" THEN -mag ELSE mag,
                  e |-> <<>>]
            ELSE [ok |-> FALSE, n |-> 0, e |-> ValueErrorText \o str_repr(v.s)]
    ELSE [ok |-> FALSE, n |-> 0, e |-> TypeErrorText]

RECURSIVE nat_str(_)
nat_str(i) ==
    IF i < 10 THEN <<DecimalDigits[i + 1]>>
    ELSE nat_str(i \div 10) \o <<DecimalDigits[(i % 10) + 1]>>

\* str(i) for an integer.
int_str(i) == IF i < 0 THEN <<"-">> \o nat_str(-i) ELSE nat_str(i)

\* What an f-string puts in place of {v}.
format_value(v) ==
    IF v.t = "str" THEN v.s
    ELSE IF v.t = "int" THEN int_str(v.n)
    ELSE <<"N","o","n","e">>

-----------------------------------------------------------------------------
\* CiscoSignalProcessor

IMMEDIATE_LABEL == <<"I","M","M","E","D","I","A","T","E"," ","(","<"," ","2","m",")">>
NEAR_LABEL == <<"N","E","A","R"," ","(","2","m"," ","-"," ","1","0","m",")">>
FAR_LABEL == <<"F","A","R"," ","(",">"," ","1","0","m",")">>
NOISE_LABEL ==
    <<"N","O","I","S","E"," ","(","W","e","a","k"," ","s","i","g","n","a","l"," ","-"," ","I","g","n","o","r","e",")">>

VIP_MAC == PyStr(<<"0","0",":","1","1",":","2","2",":","3","3",":","4","4",":","5","5">>)
ASSET_MAC == PyStr(<<"A","A",":","B","B",":","C","C",":","D","D",":","E","E",":","F","F">>)
PASSERBY_MAC == PyStr(<<"1","1",":","2","2",":","3","3",":","4","4",":","5","5",":","6","6">>)

\* __init__ with the Immediate threshold set ten dBm lower.
NewProcessor_immediate55 ==
    [RSSI_THRESHOLD_IMMEDIATE |-> -55,
     RSSI_THRESHOLD_NEAR |-> -65,
     RSSI_THRESHOLD_FAR |-> -75,
     WATCH_LIST |-> <<VIP_MAC, ASSET_MAC>>]

\* __init__
NewProcessor ==
    [RSSI_THRESHOLD_IMMEDIATE |-> -45,
     RSSI_THRESHOLD_NEAR |-> -65,
     RSSI_THRESHOLD_FAR |-> -75,
     WATCH_LIST |-> <<VIP_MAC, ASSET_MAC>>]

\* _calculate_proximity with the Near comparison strict (> for >=).
calculate_proximity_strict(slf, rssi) ==
    IF rssi >= slf.RSSI_THRESHOLD_IMMEDIATE THEN IMMEDIATE_LABEL
    ELSE IF rssi > slf.RSSI_THRESHOLD_NEAR THEN NEAR_LABEL
    ELSE IF rssi >= slf.RSSI_THRESHOLD_FAR THEN FAR_LABEL
    ELSE NOISE_LABEL

_calculate_proximity(slf, rssi) ==
    IF rssi >= slf.RSSI_THRESHOLD_IMMEDIATE THEN IMMEDIATE_LABEL
    ELSE IF rssi >= slf.RSSI_THRESHOLD_NEAR THEN NEAR_LABEL
    ELSE IF rssi >= slf.RSSI_THRESHOLD_FAR THEN FAR_LABEL
    ELSE NOISE_LABEL

\* The shared part of both log lines.
log_msg(mac, rssi, distance, ap_mac) ==
    <<"D","e","v","i","c","e",":"," ">> \o format_value(mac)
    \o <<" ","|"," ","S","i","g","n","a","l",":"," ">> \o int_str(rssi)
    \o <<"d","B","m"," ","|"," ","S","t","a","t","u","s",":"," ">> \o distance
    \o <<" ","|"," ","A","P",":"," ">> \o format_value(ap_mac)

\* The two lines _trigger_events can log.
alert_line(mac, rssi, distance, ap_mac) ==
    [level |-> "WARNING",
     msg |-> <<" ","T","A","R","G","E","T"," ","D","E","T","E","C","T","E","D","!"," ">>
             \o log_msg(mac, rssi, distance, ap_mac)]

activity_line(mac, rssi, distance, ap_mac, ssid) ==
    [level |-> "INFO",
     msg |-> <<" ","A","c","t","i","v","e"," ","U","s","e","r",":"," ">>
             \o log_msg(mac, rssi, distance, ap_mac)
             \o <<" ","|"," ","P","r","o","b","i","n","g",":"," ">>
             \o format_value(ssid)]

\* _trigger_events with the watch list tested before the noise filter.
trigger_events_watch_first(slf, mac, rssi, distance, ap_mac, ssid) ==
    IF list_contains(mac, slf.WATCH_LIST)
    THEN [action |-> "Alert", logged |-> <<alert_line(mac, rssi, distance, ap_mac)>>]
    ELSE IF str_contains(<<"N","O","I","S","E">>, distance)
    THEN [action |-> "Suppressed", logged |-> <<>>]
    ELSE IF str_contains(<<"I","M","M","E","D","I","A","T","E">>, distance)
    THEN [action |-> "Activity",
          logged |-> <<activity_line(mac, rssi, distance, ap_mac, ssid)>>]
    ELSE [action |-> "None", logged |-> <<>>]

\* _trigger_events with Scenario B tested before Scenario A.
trigger_events_immediate_first(slf, mac, rssi, distance, ap_mac, ssid) ==
    IF str_contains(<<"N","O","I","S","E">>, distance)
    THEN [action |-> "Suppressed", logged |-> <<>>]
    ELSE IF str_contains(<<"I","M","M","E","D","I","A","T","E">>, distance)
    THEN [action |-> "Activity",
          logged |-> <<activity_line(mac, rssi, distance, ap_mac, ssid)>>]
    ELSE IF list_contains(mac, slf.WATCH_LIST)
    THEN [action |-> "Alert", logged |-> <<alert_line(mac, rssi, distance, ap_mac)>>]
    ELSE [action |-> "None", logged |-> <<>>]

\* _trigger_events with Scenario C logging the general line instead of pass.
trigger_events_logs_general(slf, mac, rssi, distance, ap_mac, ssid) ==
    IF str_contains(<<"N","O","I","S","E">>, distance)
    THEN [action |-> "Suppressed", logged |-> <<>>]
    ELSE IF list_contains(mac, slf.WATCH_LIST)
    THEN [action |-> "Alert", logged |-> <<alert_line(mac, rssi, distance, ap_mac)>>]
    ELSE IF str_contains(<<"I","M","M","E","D","I","A","T","E">>, distance)
    THEN [action |-> "Activity",
          logged |-> <<activity_line(mac, rssi, distance, ap_mac, ssid)>>]
    ELSE [action |-> "None",
          logged |-> <<[level |-> "INFO", msg |-> log_msg(mac, rssi, distance, ap_mac)]>>]

\* The branch _trigger_events leaves by, and the lines it logs on the way.
_trigger_events(slf, mac, rssi, distance, ap_mac, ssid) ==
    IF str_contains(<<"N","O","I","S","E">>, distance)
    THEN [action |-> "Suppressed", logged |-> <<>>]
    ELSE IF list_contains(mac, slf.WATCH_LIST)
    THEN [action |-> "Alert", logged |-> <<alert_line(mac, rssi, distance, ap_mac)>>]
    ELSE IF str_contains(<<"I","M","M","E","D","I","A","T","E">>, distance)
    THEN [action |-> "Activity",
          logged |-> <<activity_line(mac, rssi, distance, ap_mac, ssid)>>]
    ELSE [action |-> "None", logged |-> <<>>]

NoFrame ==
    [mac_address |-> Unbound, rssi |-> Unbound, detecting_ap |-> Unbound,
     ssid_probed |-> Unbound, distance_category |-> <<>>]

\* The try body of analyze_packet: ok with the branch taken and the lines
\* logged, or not ok with the text of the exception int() raised.
try_body(slf, packet) ==
    LET mac_address == dict_get(packet, "deviceMac", PyNone)
        coerced == py_int(dict_get(packet, "rssi", PyInt(-100)))
        detecting_ap == dict_get(packet, "apMac", PyNone)
        ssid_probed == dict_get(packet, "ssid", PyStr(<<"N","/","A">>))
        distance_category == _calculate_proximity(slf, coerced.n)
        events == _trigger_events(slf, mac_address, coerced.n, distance_category,
                                  detecting_ap, ssid_probed)
    IN  IF coerced.ok
        THEN [ok |-> TRUE, e |-> <<>>,
              action |-> events.action, logged |-> events.logged,
              frame |-> [mac_address |-> mac_address, rssi |-> PyInt(coerced.n),
                         detecting_ap |-> detecting_ap, ssid_probed |-> ssid_probed,
                         distance_category |-> distance_category]]
        ELSE [ok |-> FALSE, e |-> coerced.e,
              action |-> "Error", logged |-> <<>>,
              frame |-> [NoFrame EXCEPT !.mac_address = mac_address]]

\* The line the except branch logs for exception text e.
error_line(e) ==
    [level |-> "ERROR",
     msg |-> <<"P","a","c","k","e","t"," ","p","a","r","s","i","n","g"," ","e","r","r","o","r",":"," ">> \o e]

\* analyze_packet reading deviceMac with data_packet['deviceMac']: a packet
\* without the key raises KeyError in the try body.
analyze_packet_subscript(slf, packet) ==
    LET t == try_body(slf, packet)
        missing == "deviceMac" \notin DOMAIN packet
    IN  [self |-> slf, data_packet |-> packet, raised |-> FALSE,
         action |-> IF missing THEN "Error" ELSE t.action,
         frame |-> IF missing THEN NoFrame ELSE t.frame,
         logged |-> IF missing
                    THEN <<error_line(str_repr(<<"d","e","v","i","c","e","M","a","c">>))>>
                    ELSE IF t.ok THEN t.logged ELSE <<error_line(t.e)>>]

\* analyze_packet with the except branch raising again after it has logged.
analyze_packet_reraise(slf, packet) ==
    LET t == try_body(slf, packet)
    IN  [self |-> slf, data_packet |-> packet, raised |-> ~t.ok,
         action |-> t.action, frame |-> t.frame,
         logged |-> IF t.ok THEN t.logged ELSE <<error_line(t.e)>>]

\* analyze_packet storing the coerced rssi back into the dict it was given.
analyze_packet_writes_back(slf, packet) ==
    LET t == try_body(slf, packet)
    IN  [self |-> slf,
         data_packet |-> IF t.ok
                         THEN [k \in DOMAIN packet \cup {"rssi"} |->
                                  IF k = "rssi" THEN t.frame.rssi ELSE packet[k]]
                         ELSE packet,
         raised |-> FALSE,
         action |-> t.action, frame |-> t.frame,
         logged |-> IF t.ok THEN t.logged ELSE <<error_line(t.e)>>]

\* analyze_packet(self, data_packet): the processor and the dict as the call
\* leaves them, the outcome, what was logged, and whether an exception left
\* the method (except Exception catches everything the try body can raise).
analyze_packet(slf, packet) ==
    LET t == try_body(slf, packet)
    IN  [self |-> slf, data_packet |-> packet, raised |-> FALSE,
         action |-> t.action, frame |-> t.frame,
         logged |-> IF t.ok THEN t.logged ELSE <<error_line(t.e)>>]

-----------------------------------------------------------------------------
\* The packets a caller may hand to analyze_packet.

AP_LOBBY == PyStr(<<"A","P","_","L","o","b","b","y","_","0","1">>)
AP_DESK == PyStr(<<"A","P","_","L","i","b","r","a","r","y","_","D","e","s","k">>)

CORP_SSID == PyStr(<<"C","o","r","p","N","e","t">>)

RssiInts == (-MaxWeak)..(-MinWeak)

\* rssi values beside that range: ints far from the thresholds, text int()
\* accepts, text it rejects, None, and floats.
RssiOther ==
    {PyInt(-100), PyInt(-90), PyInt(0),
     PyStr(<<"-","6","0">>), PyStr(<<" ","-","4","0"," ">>), PyStr(<<"-","9","_","0">>),
     PyStr(<<"a","b","c">>), PyStr(<<>>), PyStr(<<"-">>),
     PyStr(<<"-","6","0",".","5">>), PyStr(<<"6","_">>),
     PyNone, PyFloat(-455), PyFloat(-759)}

Field(key, values) == {<<>>} \cup {<<key, v>> : v \in values}

\* A dict from a set of <<key, value>> pairs, one per key.
Dict(pairs) ==
    [k \in {p[1] : p \in pairs} |-> (CHOOSE p \in pairs : p[1] = k)[2]]

\* Records with all four fields, the rssi an int.
CompletePackets ==
    {[deviceMac |-> m, rssi |-> PyInt(i), apMac |-> AP_LOBBY, ssid |-> CORP_SSID] :
        m \in {VIP_MAC, ASSET_MAC, PASSERBY_MAC}, i \in RssiInts}

\* Records with any of the four fields left out, and any kind of rssi.
PartialPackets ==
    {Dict({f \in {m, r, a, s} : f # <<>>}) :
        m \in Field("deviceMac", {VIP_MAC, PASSERBY_MAC}),
        r \in Field("rssi", RssiOther),
        a \in Field("apMac", {AP_LOBBY}),
        s \in Field("ssid", {CORP_SSID})}

Packets == CompletePackets \cup PartialPackets

\* mock_data as mock_cisco_data_stream builds it.
MockData ==
    << [deviceMac |-> PASSERBY_MAC, rssi |-> PyInt(-85), apMac |-> AP_LOBBY,
        ssid |-> PyStr(<<"F","r","e","e","W","i","F","i">>)],
       [deviceMac |-> ASSET_MAC, rssi |-> PyInt(-60), apMac |-> AP_LOBBY,
        ssid |-> CORP_SSID],
       [deviceMac |-> VIP_MAC, rssi |-> PyInt(-40), apMac |-> AP_DESK,
        ssid |-> PyStr(<<"L","i","b","r","a","r","y","_","G","u","e","s","t">>)] >>

-----------------------------------------------------------------------------
\* The state machine.

Init ==
    /\ self = NewProcessor
    /\ mock_data = MockData
    /\ data_packet = <<>>
    /\ given = <<>>
    /\ chosen = 0
    /\ frame = NoFrame
    /\ action = "Idle"
    /\ logged = <<>>
    /\ raised = FALSE
    /\ failed_before = FALSE

\* The effect of one call of analyze_packet on packet p; a caller that an
\* exception reached makes no further call.
Call(p) ==
    LET r == analyze_packet(self, p)
    IN  /\ ~raised
        /\ self' = r.self
        /\ data_packet' = r.data_packet
        /\ given' = p
        /\ frame' = r.frame
        /\ action' = r.action
        /\ logged' = r.logged
        /\ raised' = r.raised
        /\ failed_before' = (failed_before \/ action = "Error")

\* Some caller hands a packet to analyze_packet.
AnalyzePacket ==
    \E p \in Packets :
        /\ Call(p)
        /\ UNCHANGED <<mock_data, chosen>>

\* One iteration of the while True loop of mock_cisco_data_stream:
\* random.choice, the in-place += of random.randint(-3, 3), analyze_packet.
\* The dict handed over is the element of mock_data itself.
MockIteration ==
    \E i \in DOMAIN mock_data, jitter \in -3..3 :
        LET packet == [mock_data[i] EXCEPT
                          !["rssi"] = PyInt(mock_data[i]["rssi"].n + jitter)]
            drift == packet["rssi"].n - MockData[i]["rssi"].n
        IN  /\ drift \in (-MaxDrift)..MaxDrift
            /\ Call(packet)
            /\ chosen' = i
            /\ mock_data' = [mock_data EXCEPT ![i] = data_packet']

Next == AnalyzePacket

Spec == Init /\ [][Next]_vars

MockNext == MockIteration

MockSpec == Init /\ [][MockNext]_vars

-----------------------------------------------------------------------------
\* Properties.

\* A call has returned through the try body (no exception).
Analyzed == action \in {"Suppressed", "Alert", "Activity", "None"}

\* The device id the last call read is on the watch list the source configures.
OnWatchList ==
    frame.mac_address \in {VIP_MAC, ASSET_MAC}

\* The one line the last call logged carries these four fields.
CarriesFields(line) ==
    /\ str_contains(format_value(frame.mac_address), line.msg)
    /\ str_contains(int_str(frame.rssi.n) \o <<"d","B","m">>, line.msg)
    /\ str_contains(frame.distance_category, line.msg)
    /\ str_contains(format_value(frame.detecting_ap), line.msg)

\* The integers the classifier is checked on.
ClassifyDomain == ((-MaxWeak) - 30)..0

\* C1: for every integer s, _calculate_proximity(s) is one of the four
\* categories: Immediate iff s >= -45, Near iff -65 <= s <= -46, Far iff
\* -75 <= s <= -66, Noise iff s <= -76; the six boundary values classify as
\* listed, and every analysed packet carries the category of its rssi.
C1_ClassifierPartition ==
    /\ \A s \in ClassifyDomain :
        LET c == _calculate_proximity(self, s)
        IN  /\ c \in {IMMEDIATE_LABEL, NEAR_LABEL, FAR_LABEL, NOISE_LABEL}
            /\ (c = IMMEDIATE_LABEL) <=> (s >= -45)
            /\ (c = NEAR_LABEL) <=> (-65 <= s /\ s <= -46)
            /\ (c = FAR_LABEL) <=> (-75 <= s /\ s <= -66)
            /\ (c = NOISE_LABEL) <=> (s <= -76)
    /\ _calculate_proximity(self, -45) = IMMEDIATE_LABEL
    /\ _calculate_proximity(self, -46) = NEAR_LABEL
    /\ _calculate_proximity(self, -65) = NEAR_LABEL
    /\ _calculate_proximity(self, -66) = FAR_LABEL
    /\ _calculate_proximity(self, -75) = FAR_LABEL
    /\ _calculate_proximity(self, -76) = NOISE_LABEL
    /\ Analyzed =>
        /\ (frame.distance_category = IMMEDIATE_LABEL) <=> (frame.rssi.n >= -45)
        /\ (frame.distance_category = NEAR_LABEL)
               <=> (-65 <= frame.rssi.n /\ frame.rssi.n <= -46)
        /\ (frame.distance_category = FAR_LABEL)
               <=> (-75 <= frame.rssi.n /\ frame.rssi.n <= -66)
        /\ (frame.distance_category = NOISE_LABEL) <=> (frame.rssi.n <= -76)

\* A packet at the boundary -65 was analysed and classified Near.
C1_Witness ==
    /\ Analyzed
    /\ frame.rssi = PyInt(-65)
    /\ frame.distance_category = NEAR_LABEL

\* C2: a packet whose rssi is Noise (<= -76) is Suppressed, with no line
\* logged, whether or not its device id is on the watch list.
C2_NoiseSuppressed ==
    (Analyzed /\ frame.rssi.n <= -76) =>
        /\ action = "Suppressed"
        /\ logged = <<>>

\* A watch-listed device at -90 was suppressed.
C2_Witness ==
    /\ OnWatchList
    /\ frame.rssi = PyInt(-90)
    /\ action = "Suppressed"
    /\ logged = <<>>

\* C3: a packet whose device id is on the watch list and whose category is
\* not Noise yields exactly one Alert: one WARNING line carrying device id,
\* signal strength, category and detecting node, and no Activity.
C3_WatchListAlert ==
    (Analyzed /\ OnWatchList /\ frame.rssi.n >= -75) =>
        /\ action = "Alert"
        /\ Len(logged) = 1
        /\ logged[1].level = "WARNING"
        /\ str_contains(<<"T","A","R","G","E","T"," ","D","E","T","E","C","T","E","D","!">>,
                        logged[1].msg)
        /\ CarriesFields(logged[1])

\* A watch-listed device at -40 (Immediate) raised an Alert.
C3_Witness ==
    /\ OnWatchList
    /\ frame.rssi = PyInt(-40)
    /\ frame.distance_category = IMMEDIATE_LABEL
    /\ action = "Alert"

\* The Activity line: one INFO line carrying the four fields and ending in
\* the probed network name.
IsActivityLine(line, ssid) ==
    /\ line.level = "INFO"
    /\ str_contains(<<"A","c","t","i","v","e"," ","U","s","e","r",":">>, line.msg)
    /\ CarriesFields(line)
    /\ LET tail == <<" ","|"," ","P","r","o","b","i","n","g",":"," ">> \o ssid
       IN  /\ Len(line.msg) >= Len(tail)
           /\ SubSeq(line.msg, Len(line.msg) - Len(tail) + 1, Len(line.msg)) = tail

\* The probed network name of the packet last handed over, as it is logged.
ProbedName ==
    IF "ssid" \in DOMAIN given THEN given["ssid"].s ELSE <<"N","/","A">>

\* C4 as stated: a packet not on the watch list with signal strength -50 is
\* classified Immediate and yields an Activity carrying the probed network
\* name.
C4_AsStated ==
    (Analyzed /\ ~OnWatchList /\ frame.rssi = PyInt(-50)) =>
        /\ frame.distance_category = IMMEDIATE_LABEL
        /\ action = "Activity"
        /\ Len(logged) = 1
        /\ IsActivityLine(logged[1], ProbedName)

\* C4, amended: a packet not on the watch list with signal strength -50 is
\* classified Near and yields None, with nothing logged; with signal strength
\* -45 it is classified Immediate and yields an Activity carrying the probed
\* network name.
C4_Amended ==
    /\ (Analyzed /\ ~OnWatchList /\ frame.rssi = PyInt(-50)) =>
        /\ frame.distance_category = NEAR_LABEL
        /\ action = "None"
        /\ logged = <<>>
    /\ (Analyzed /\ ~OnWatchList /\ frame.rssi = PyInt(-45)) =>
        /\ frame.distance_category = IMMEDIATE_LABEL
        /\ action = "Activity"
        /\ Len(logged) = 1
        /\ IsActivityLine(logged[1], ProbedName)

\* The passerby at -50 was analysed, and nothing came of it.
C4_Witness ==
    /\ frame.mac_address = PASSERBY_MAC
    /\ frame.rssi = PyInt(-50)
    /\ action = "None"

\* C5: a packet whose device id is not on the watch list yields an Activity
\* (one INFO line carrying device id, signal strength, category, detecting
\* node and the probed network name, "N/A" when ssid is absent) exactly when
\* its category is Immediate, and None, with nothing logged, when its
\* category is Near or Far.
C5_ActivityOrNone ==
    (Analyzed /\ ~OnWatchList) =>
        /\ (action = "Activity") <=> (frame.rssi.n >= -45)
        /\ (action = "Activity") =>
            /\ Len(logged) = 1
            /\ IsActivityLine(logged[1], ProbedName)
        /\ (-75 <= frame.rssi.n /\ frame.rssi.n <= -46) =>
            /\ action = "None"
            /\ logged = <<>>

\* The passerby at -70 (Far) was analysed and yielded None.
C5_Witness ==
    /\ frame.mac_address = PASSERBY_MAC
    /\ frame.rssi = PyInt(-70)
    /\ frame.distance_category = FAR_LABEL
    /\ action = "None"
    /\ logged = <<>>

\* C6: a packet with no rssi field is taken to be at -100, is classified
\* Noise, and is Suppressed: nothing is logged, not even an error.
C6_MissingRssi ==
    (action # "Idle" /\ "rssi" \notin DOMAIN given) =>
        /\ frame.rssi = PyInt(-100)
        /\ frame.distance_category = NOISE_LABEL
        /\ action = "Suppressed"
        /\ logged = <<>>

\* A watch-listed device whose packet had no rssi was suppressed.
C6_Witness ==
    /\ action = "Suppressed"
    /\ "rssi" \notin DOMAIN given
    /\ "deviceMac" \in DOMAIN given
    /\ given["deviceMac"] = VIP_MAC

\* The last call ended in the error outcome: one ERROR line, nothing else.
ErrorOutcome ==
    /\ action = "Error"
    /\ Len(logged) = 1
    /\ logged[1].level = "ERROR"

\* C7 as stated: a packet with deviceMac absent, apMac absent, or an rssi
\* that is not coercible to an integer ends in the error outcome.
C7_AsStated ==
    (/\ action # "Idle"
     /\ \/ "deviceMac" \notin DOMAIN given
        \/ "apMac" \notin DOMAIN given
        \/ ("rssi" \in DOMAIN given /\ ~py_int(given["rssi"]).ok))
        => ErrorOutcome

\* The rssi values of the model that Python's int() rejects.
NotCoercible ==
    {PyNone, PyStr(<<"a","b","c">>), PyStr(<<>>), PyStr(<<"-">>),
     PyStr(<<"-","6","0",".","5">>), PyStr(<<"6","_">>)}

\* C7, amended: analyze_packet ends in the error outcome (one ERROR line,
\* no Alert, no Activity) exactly when the packet has an rssi that int()
\* rejects; a packet without deviceMac or apMac is not an error: the field
\* is read as None and the packet is classified and triggered as usual.
C7_Amended ==
    action # "Idle" =>
        /\ ("rssi" \in DOMAIN given /\ given["rssi"] \in NotCoercible) <=> ErrorOutcome
        /\ (action = "Error") <=> ErrorOutcome
        /\ (action # "Error" /\ "deviceMac" \notin DOMAIN given) =>
            /\ frame.mac_address = PyNone
            /\ action = (IF frame.rssi.n >= -45 THEN "Activity"
                         ELSE IF frame.rssi.n >= -75 THEN "None" ELSE "Suppressed")
        /\ (action # "Error" /\ "apMac" \notin DOMAIN given) =>
            frame.detecting_ap = PyNone

\* A packet with neither deviceMac nor apMac was analysed without error and
\* logged as an Activity.
C7_Witness ==
    /\ action = "Activity"
    /\ "deviceMac" \notin DOMAIN given
    /\ "apMac" \notin DOMAIN given

\* What analyze_packet does with packet p on a processor fresh from __init__.
Alone(p) == analyze_packet(NewProcessor, p)

\* C8: no failure reaches the caller or stops processing: after a packet
\* has failed, the caller can hand over the next one, and every later
\* packet ends as it would had it been the only packet.
C8_Isolation ==
    /\ ~raised
    /\ (action = "Error") => ENABLED AnalyzePacket
    /\ failed_before =>
        /\ action = Alone(given).action
        /\ logged = Alone(given).logged

\* After an earlier packet failed, a later one raised its Alert.
C8_Witness ==
    /\ failed_before
    /\ action = "Alert"
    /\ ~raised

\* C9: analyze_packet leaves the thresholds, the watch list and the packet
\* it was given unchanged, and what it does with a packet depends on that
\* packet alone: the same as on a fresh processor, and the same again when
\* the packet is presented again.
C9_Frame ==
    [][/\ self' = self
       /\ data_packet' = given'
       /\ action' = Alone(given').action
       /\ logged' = Alone(given').logged
       /\ (action # "Idle" /\ given' = given) => (action' = action /\ logged' = logged)]_vars

\* A packet has been analysed after an earlier failure, and the processor and
\* the packet are as they were.
C9_Witness ==
    /\ failed_before
    /\ action = "Activity"
    /\ self = NewProcessor
    /\ data_packet = given

\* C10: in the mock loop, the rssi of every packet handed to analyze_packet
\* is within 3 of its record's configured value, so the passerby record is
\* always Suppressed and the two watch-listed records always yield Alert.
C10_JitterBounded ==
    chosen # 0 =>
        /\ given["rssi"].n - MockData[chosen]["rssi"].n \in -3..3
        /\ (chosen = 1) => (action = "Suppressed")
        /\ (chosen \in {2, 3}) => (action = "Alert")

====
